---------------------------- MODULE Spec2Model ----------------------------
(***************************************************************************)
(* Model of the book recommendation pipeline of                            *)
(* src/스크립트/step3_integrated_system.py (BookRecommendationSystem and     *)
(* APIUsageTracker): topic -> keywords -> search -> LLM-scored ranking,    *)
(* and the batch loop over the topics of a spreadsheet.                    *)
(*                                                                         *)
(* Python values are modelled as tagged records (ty = "missing" for an     *)
(* absent dict key, "str", "num", "list", "dict").  An operation that can  *)
(* raise returns a record with a raised flag.  The external collaborators  *)
(* (language model, search service, usage logging) are inputs: each call   *)
(* gets an outcome drawn from a bounded set.  Korean string literals of    *)
(* the source are transliterated: '미분류' is "unclassified", '중' is        *)
(* "medium", 'API 오류로 인한 처리 실패' is "api_error_processing_failed".   *)
(***************************************************************************)
EXTENDS Integers, Sequences, FiniteSets, TLC

VARIABLES
    pc,               \* position of the operation under execution
    call,             \* arguments and collaborator outcomes of the current call
    ret,              \* value returned (or exception raised) by the call
    usage_log,        \* APIUsageTracker.usage_log: call types, in order
    processed_count,  \* BookRecommendationSystem.processed_count
    total_count,      \* BookRecommendationSystem.total_count
    df,               \* the 'task' column of the spreadsheet
    topics,           \* df['task'].dropna().tolist()
    results,          \* process_excel_file: results
    keywords_list,    \* process_excel_file: keywords_list
    academic_fields,  \* process_excel_file: academic_fields
    environ,          \* os.environ: the credentials that are set
    timeline          \* the external calls and pacing steps of the batch, in order

vars == <<pc, call, ret, usage_log, processed_count, total_count, df, topics,
          results, keywords_list, academic_fields, environ, timeline>>

batchVars == <<processed_count, total_count, df, topics, results,
               keywords_list, academic_fields>>

\* The credentials read by os.getenv; a credential is set when its value is
\* a non-empty string.
Credentials == {"GOOGLE_API_KEY", "NAVER_CLIENT_ID", "NAVER_CLIENT_SECRET"}

Environs == [Credentials -> BOOLEAN]

AllSet == [c \in Credentials |-> TRUE]

(***************************************************************************)
(* Bounds of the model.                                                    *)
(***************************************************************************)
MaxBooks == 2       \* candidates handed to verify_books_with_llm
MaxEntries == 2     \* score entries in a model response

(***************************************************************************)
(* Program constants.                                                      *)
(***************************************************************************)
VerifyCap == 15      \* books[:15]
TopN == 2            \* verified_books[:2]
KeywordCap == 3      \* keywords[:3]
MaxRelevance == 30
MaxAppropriateness == 25
MaxReliability == 20
MaxRecency == 15
MaxAccessibility == 10

(***************************************************************************)
(* Python values.                                                          *)
(***************************************************************************)
Missing == [ty |-> "missing"]
JStr(s) == [ty |-> "str", s |-> s]
JNum(n) == [ty |-> "num", n |-> n]
JList(items) == [ty |-> "list", items |-> items]

\* dict.get(key, default): the default only when the key is absent.
Get(value, default) == IF value.ty = "missing" THEN default ELSE value

Min(a, b) == IF a <= b THEN a ELSE b

\* seq[:n]
Prefix(seq, n) == SubSeq(seq, 1, Min(n, Len(seq)))

Range(seq) == {seq[i] : i \in 1..Len(seq)}


(***************************************************************************)
(* APIUsageTracker.log_api_call: appends one entry with the call type.     *)
(* Token estimation and pricing do not influence the pipeline and are not  *)
(* modelled; whether the call returns or raises is an outcome (log_ok).    *)
(***************************************************************************)
log_api_call(log, call_type) == Append(log, call_type)

(***************************************************************************)
(* A model response, after response.text.strip(), removal of a code fence  *)
(* and json.loads, is one of:                                              *)
(*   kind = "raise"       generate_content or response.text raised         *)
(*   kind = "unparsable"  json.loads raised                                *)
(*   kind = "nonobject"   valid JSON that is not an object (no .get)       *)
(*   kind = "object"      a JSON object, with its fields                   *)
(***************************************************************************)
RespRaise == [kind |-> "raise"]
RespUnparsable == [kind |-> "unparsable"]
RespNonObject == [kind |-> "nonobject"]

\* The text of the response is available (the model call returned).
HasText(resp) == resp.kind # "raise"

(***************************************************************************)
(* verify_books_with_llm                                                   *)
(***************************************************************************)
\* A candidate as built by search_books_naver.
Book(title, isbn, keyword) ==
    [title |-> title, isbn |-> isbn, search_keyword |-> keyword]

\* One element of book_scores that is a JSON object.
ScoreInfo(book_number, vec, total_score) ==
    [ty |-> "dict",
     book_number |-> book_number,
     relevance_score |-> vec[1],
     appropriateness_score |-> vec[2],
     reliability_score |-> vec[3],
     recency_score |-> vec[4],
     accessibility_score |-> vec[5],
     total_score |-> total_score]

\* The dict passed to book.update (lines 379-387).
ScoreUpdate(score_info) ==
    [llm_total_score |-> Get(score_info.total_score, JNum(0)),
     llm_relevance |-> Get(score_info.relevance_score, JNum(0)),
     llm_appropriateness |-> Get(score_info.appropriateness_score, JNum(0)),
     llm_reliability |-> Get(score_info.reliability_score, JNum(0)),
     llm_recency |-> Get(score_info.recency_score, JNum(0)),
     llm_accessibility |-> Get(score_info.accessibility_score, JNum(0))]

\* book = books_to_verify[book_num].copy(); book.update({...}): every field
\* of the candidate, and the fields of the update (which win on a clash).
ScoredBook(book, score_info) == ScoreUpdate(score_info) @@ book

\* book_num = score_info.get('book_number', 1) - 1
BookNum(score_info) == Get(score_info.book_number, JNum(1)).n - 1

\* if 0 <= book_num < len(books_to_verify)
OrdinalInRange(book_num, books_to_verify) ==
    0 <= book_num /\ book_num < Len(books_to_verify)

\* The statement of the loop body raises: score_info has no .get (it is not
\* an object), or book_number is not a number (str - int).
EntryRaises(score_info) ==
    \/ score_info.ty # "dict"
    \/ Get(score_info.book_number, JNum(1)).ty # "num"

\* Mutant of MergeScores: the range check is missing, so an ordinal above
\* the list length raises IndexError and a negative index counts from the end.
RECURSIVE MergeScores_NoRangeCheck(_, _, _)
MergeScores_NoRangeCheck(books_to_verify, book_scores, verified_books) ==
    IF book_scores = <<>> THEN [raised |-> FALSE, value |-> verified_books]
    ELSE LET score_info == Head(book_scores) IN
         IF EntryRaises(score_info) THEN [raised |-> TRUE, value |-> <<>>]
         ELSE LET book_num == BookNum(score_info)
                  index == IF book_num < 0
                           THEN Len(books_to_verify) + book_num + 1
                           ELSE book_num + 1
              IN  IF index \in 1..Len(books_to_verify)
                  THEN MergeScores_NoRangeCheck(books_to_verify, Tail(book_scores),
                           Append(verified_books,
                                  ScoredBook(books_to_verify[index], score_info)))
                  ELSE [raised |-> TRUE, value |-> <<>>]

\* Mutant of MergeScores: an entry that raises is skipped and the entries
\* handled so far are kept.
RECURSIVE MergeScores_SkipFailingEntry(_, _, _)
MergeScores_SkipFailingEntry(books_to_verify, book_scores, verified_books) ==
    IF book_scores = <<>> THEN [raised |-> FALSE, value |-> verified_books]
    ELSE LET score_info == Head(book_scores) IN
         IF EntryRaises(score_info)
         THEN MergeScores_SkipFailingEntry(books_to_verify, Tail(book_scores),
                                           verified_books)
         ELSE LET book_num == BookNum(score_info) IN
              IF OrdinalInRange(book_num, books_to_verify)
              THEN MergeScores_SkipFailingEntry(books_to_verify, Tail(book_scores),
                       Append(verified_books,
                              ScoredBook(books_to_verify[book_num + 1], score_info)))
              ELSE MergeScores_SkipFailingEntry(books_to_verify, Tail(book_scores),
                                                verified_books)

\* for score_info in book_scores: ...  (any exception ends the loop)
RECURSIVE MergeScores(_, _, _)
MergeScores(books_to_verify, book_scores, verified_books) ==
    IF book_scores = <<>> THEN [raised |-> FALSE, value |-> verified_books]
    ELSE LET score_info == Head(book_scores) IN
         IF EntryRaises(score_info) THEN [raised |-> TRUE, value |-> <<>>]
         ELSE LET book_num == BookNum(score_info) IN
              IF OrdinalInRange(book_num, books_to_verify)
              THEN MergeScores(books_to_verify, Tail(book_scores),
                       Append(verified_books,
                              ScoredBook(books_to_verify[book_num + 1], score_info)))
              ELSE MergeScores(books_to_verify, Tail(book_scores), verified_books)

\* Order of Python strings used as sort keys.
StrOrder == <<"a", "b">>
StrRank(s) == CHOOSE i \in 1..Len(StrOrder) : StrOrder[i] = s

\* key(a) < key(b) for two keys of the same type
KeyLess(a, b) ==
    IF a.ty = "num" THEN a.n < b.n ELSE StrRank(a.s) < StrRank(b.s)

\* Comparing an int with a str raises TypeError.
SortRaises(seq) ==
    \E i, j \in 1..Len(seq) : seq[i].llm_total_score.ty # seq[j].llm_total_score.ty

\* Position of x in a list sorted in descending order: after every element
\* whose key is not smaller (stability).
RECURSIVE InsertDesc(_, _)
InsertDesc(sorted, x) ==
    IF sorted = <<>> THEN <<x>>
    ELSE IF KeyLess(Head(sorted).llm_total_score, x.llm_total_score)
         THEN <<x>> \o sorted
         ELSE <<Head(sorted)>> \o InsertDesc(Tail(sorted), x)

RECURSIVE SortFrom(_, _)
SortFrom(seq, acc) ==
    IF seq = <<>> THEN acc ELSE SortFrom(Tail(seq), InsertDesc(acc, Head(seq)))

\* Mutant of SortedByTotal: the list is returned in the order of the response.
SortedByTotal_Unsorted(verified_books) == verified_books

\* sorted(verified_books, key=lambda x: x.get('llm_total_score', 0), reverse=True)
SortedByTotal(verified_books) == SortFrom(verified_books, <<>>)

\* ', '.join(topic_info.get('book_types', [...])) raises unless the value
\* is a list of strings (or a string).
JoinRaises(value) ==
    \/ value.ty = "num"
    \/ value.ty = "list" /\ \E i \in 1..Len(value.items) : value.items[i].ty # "str"

VerifyEmpty(called, logged) ==
    [raised |-> FALSE, value |-> <<>>, called |-> called, logged |-> logged]

\* book_list (lines 301-308): the numbered candidates put into the prompt.
BookList(books_to_verify) ==
    [i \in 1..Len(books_to_verify) |-> <<i, books_to_verify[i].title>>]

\* Mutant of verify_books_with_llm: the check for an empty list is missing,
\* so the model is called for no candidates.
verify_books_with_llm_NoEmptyCheck(books, topic_info, resp, log_ok) ==
    LET books_to_verify == Prefix(books, VerifyCap) IN
    IF JoinRaises(Get(topic_info.book_types, JList(<<JStr("general")>>)))
    THEN [raised |-> TRUE, value |-> <<>>, called |-> FALSE, logged |-> FALSE]
    ELSE IF ~HasText(resp) THEN VerifyEmpty(TRUE, FALSE)
    ELSE IF ~log_ok THEN VerifyEmpty(TRUE, FALSE)
    ELSE IF resp.kind # "object" THEN VerifyEmpty(TRUE, TRUE)
    ELSE LET book_scores == Get(resp.book_scores, JList(<<>>)) IN
         IF book_scores.ty # "list" THEN VerifyEmpty(TRUE, TRUE)
         ELSE LET merged == MergeScores(books_to_verify, book_scores.items, <<>>) IN
              IF merged.raised \/ SortRaises(merged.value)
              THEN VerifyEmpty(TRUE, TRUE)
              ELSE [raised |-> FALSE, value |-> SortedByTotal(merged.value),
                    called |-> TRUE, logged |-> TRUE]

\* Mutant of verify_books_with_llm: the ordinals of the response are resolved
\* against the whole input list.
verify_books_with_llm_Uncapped(books, topic_info, resp, log_ok) ==
    IF books = <<>> THEN VerifyEmpty(FALSE, FALSE)
    ELSE IF JoinRaises(Get(topic_info.book_types, JList(<<JStr("general")>>)))
         THEN [raised |-> TRUE, value |-> <<>>, called |-> FALSE, logged |-> FALSE]
         ELSE IF ~HasText(resp) THEN VerifyEmpty(TRUE, FALSE)
         ELSE IF ~log_ok THEN VerifyEmpty(TRUE, FALSE)
         ELSE IF resp.kind # "object" THEN VerifyEmpty(TRUE, TRUE)
         ELSE LET book_scores == Get(resp.book_scores, JList(<<>>)) IN
              IF book_scores.ty # "list" THEN VerifyEmpty(TRUE, TRUE)
              ELSE LET merged == MergeScores(books, book_scores.items, <<>>) IN
                   IF merged.raised \/ SortRaises(merged.value)
                   THEN VerifyEmpty(TRUE, TRUE)
                   ELSE [raised |-> FALSE, value |-> SortedByTotal(merged.value),
                         called |-> TRUE, logged |-> TRUE]

verify_books_with_llm(books, topic_info, resp, log_ok) ==
    IF books = <<>> THEN VerifyEmpty(FALSE, FALSE)
    ELSE LET books_to_verify == Prefix(books, VerifyCap) IN
         IF JoinRaises(Get(topic_info.book_types, JList(<<JStr("general")>>)))
         THEN [raised |-> TRUE, value |-> <<>>, called |-> FALSE, logged |-> FALSE]
         ELSE IF ~HasText(resp) THEN VerifyEmpty(TRUE, FALSE)
         ELSE IF ~log_ok THEN VerifyEmpty(TRUE, FALSE)
         ELSE IF resp.kind # "object" THEN VerifyEmpty(TRUE, TRUE)
         ELSE LET book_scores == Get(resp.book_scores, JList(<<>>)) IN
              IF book_scores.ty # "list" THEN VerifyEmpty(TRUE, TRUE)
              ELSE LET merged == MergeScores(books_to_verify, book_scores.items, <<>>) IN
                   IF merged.raised \/ SortRaises(merged.value)
                   THEN VerifyEmpty(TRUE, TRUE)
                   ELSE [raised |-> FALSE, value |-> SortedByTotal(merged.value),
                         called |-> TRUE, logged |-> TRUE]

(***************************************************************************)
(* extract_keywords_with_gemini                                            *)
(***************************************************************************)
\* The analysis record (a Python dict); a field the dict lacks is Missing.
TopicInfo(keywords, academic_field, difficulty_level, additional_keywords, book_types, cautions, error) ==
    [keywords |-> keywords, academic_field |-> academic_field,
     difficulty_level |-> difficulty_level,
     additional_keywords |-> additional_keywords,
     book_types |-> book_types, cautions |-> cautions, error |-> error]

\* The dict returned by the except branch.
SentinelInfo ==
    TopicInfo(JList(<<>>), JStr("unclassified"), JStr("medium"), JList(<<>>),
              JList(<<>>), JStr("api_error_processing_failed"), Missing)

\* Mutant of AnalyzerFailure: the except branch returns None as keywords.
AnalyzerFailure_NoKeywords(logged) ==
    [keywords |-> JNum(0), topic_info |-> SentinelInfo, logged |-> logged]

AnalyzerFailure(logged) ==
    [keywords |-> JList(<<>>), topic_info |-> SentinelInfo, logged |-> logged]

\* resp.info is the parsed JSON object when resp.kind = "object".
extract_keywords_with_gemini(resp, log_ok) ==
    IF ~HasText(resp) THEN AnalyzerFailure(FALSE)
    ELSE IF ~log_ok THEN AnalyzerFailure(FALSE)
    ELSE IF resp.kind # "object" THEN AnalyzerFailure(TRUE)
    ELSE [keywords |-> Get(resp.info.keywords, JList(<<>>)),
          topic_info |-> resp.info, logged |-> TRUE]

(***************************************************************************)
(* search_books_naver                                                      *)
(*                                                                         *)
(* The raw 'isbn' field of a hit is a sequence of characters; Space is the *)
(* whitespace character and <<>> stands for an absent or empty field.      *)
(* The answer of the service to one request is one of:                     *)
(*   kind = "raise"    requests.get raised                                 *)
(*   kind = "non200"   status_code # 200                                   *)
(*   kind = "badjson"  response.json() raised, or is not an object         *)
(*   kind = "ok"       status 200 with items (a sequence of hits)          *)
(***************************************************************************)
Space == 0

Hit(title, isbn) == [title |-> title, isbn |-> isbn]

\* str.split(): the maximal runs of non-whitespace characters.
RECURSIVE SplitFrom(_, _, _)
SplitFrom(chars, token, tokens) ==
    IF chars = <<>>
    THEN IF token = <<>> THEN tokens ELSE Append(tokens, token)
    ELSE IF Head(chars) = Space
         THEN SplitFrom(Tail(chars), <<>>,
                        IF token = <<>> THEN tokens ELSE Append(tokens, token))
         ELSE SplitFrom(Tail(chars), Append(token, Head(chars)), tokens)

Split(chars) == SplitFrom(chars, <<>>, <<>>)

\* Mutant of NormalizeHits: the first token of the isbn field is taken.
RECURSIVE NormalizeHits_FirstToken(_, _, _)
NormalizeHits_FirstToken(items, keyword, all_books) ==
    IF items = <<>> THEN [raised |-> FALSE, all_books |-> all_books]
    ELSE LET book == Head(items) IN
         IF book.isbn = <<>>
         THEN NormalizeHits_FirstToken(Tail(items), keyword, all_books)
         ELSE LET tokens == Split(book.isbn) IN
              IF tokens = <<>> THEN [raised |-> TRUE, all_books |-> all_books]
              ELSE NormalizeHits_FirstToken(Tail(items), keyword,
                       Append(all_books,
                              Book(book.title, tokens[1], keyword)))

\* for book in books: if book.get('isbn'): all_books.append({...})
\* split()[-1] raises IndexError on a field of whitespace only; the books
\* appended before stay in all_books.
RECURSIVE NormalizeHits(_, _, _)
NormalizeHits(items, keyword, all_books) ==
    IF items = <<>> THEN [raised |-> FALSE, all_books |-> all_books]
    ELSE LET book == Head(items) IN
         IF book.isbn = <<>>
         THEN NormalizeHits(Tail(items), keyword, all_books)
         ELSE LET tokens == Split(book.isbn) IN
              IF tokens = <<>> THEN [raised |-> TRUE, all_books |-> all_books]
              ELSE NormalizeHits(Tail(items), keyword,
                       Append(all_books,
                              Book(book.title, tokens[Len(tokens)], keyword)))

Event(ev, keyword) == [ev |-> ev, keyword |-> keyword]

\* for keyword in keywords[:3]: try: ... except Exception: continue
\* answers[i] is the answer of the service to the i-th request.
RECURSIVE SearchLoop(_, _, _, _, _)
SearchLoop(keywords, answers, i, all_books, trace) ==
    IF i > Len(keywords) THEN [all_books |-> all_books, trace |-> trace]
    ELSE LET keyword == keywords[i]
             requested == Append(trace, Event("request", keyword))
             slept == Append(requested, Event("sleep", keyword))
         IN  CASE answers[i].kind = "raise" ->
                    SearchLoop(keywords, answers, i + 1, all_books, requested)
               [] answers[i].kind = "non200" ->
                    SearchLoop(keywords, answers, i + 1, all_books, slept)
               [] answers[i].kind = "badjson" ->
                    SearchLoop(keywords, answers, i + 1, all_books, requested)
               [] answers[i].kind = "ok" ->
                    LET n == NormalizeHits(answers[i].items, keyword, all_books) IN
                    SearchLoop(keywords, answers, i + 1, n.all_books,
                               IF n.raised THEN requested ELSE slept)

\* Mutant of Deduplicate: the membership test is missing, so a later book
\* with the same isbn replaces the stored one (at the position of the first).
RECURSIVE Deduplicate_LastWins(_, _)
Deduplicate_LastWins(all_books, unique_books) ==
    IF all_books = <<>> THEN unique_books
    ELSE LET book == Head(all_books) IN
         IF book.isbn = <<>> THEN Deduplicate_LastWins(Tail(all_books), unique_books)
         ELSE IF \A j \in 1..Len(unique_books) : unique_books[j].isbn # book.isbn
         THEN Deduplicate_LastWins(Tail(all_books), Append(unique_books, book))
         ELSE Deduplicate_LastWins(Tail(all_books),
                  [j \in 1..Len(unique_books) |->
                      IF unique_books[j].isbn = book.isbn THEN book
                      ELSE unique_books[j]])

\* unique_books = {}; for book in all_books: if isbn and isbn not in
\* unique_books: unique_books[isbn] = book.  A dict keeps insertion order.
RECURSIVE Deduplicate(_, _)
Deduplicate(all_books, unique_books) ==
    IF all_books = <<>> THEN unique_books
    ELSE LET book == Head(all_books) IN
         IF book.isbn # <<>>
            /\ \A j \in 1..Len(unique_books) : unique_books[j].isbn # book.isbn
         THEN Deduplicate(Tail(all_books), Append(unique_books, book))
         ELSE Deduplicate(Tail(all_books), unique_books)

\* keywords[:3] raises TypeError on a value that is no sequence.
SliceRaises(value) == value.ty # "list"

\* Number of requests search_books_naver issues for this keywords value.
NumRequests(keywords) ==
    IF SliceRaises(keywords) THEN 0 ELSE Min(KeywordCap, Len(keywords.items))

\* Mutant of search_books_naver: only the first two keywords are consulted.
search_books_naver_FirstTwo(keywords, answers) ==
    IF SliceRaises(keywords)
    THEN [raised |-> TRUE, value |-> <<>>, all_books |-> <<>>, trace |-> <<>>]
    ELSE LET loop == SearchLoop(Prefix(keywords.items, KeywordCap - 1), answers, 1,
                                <<>>, <<>>)
         IN  [raised |-> FALSE,
              value |-> Deduplicate(loop.all_books, <<>>),
              all_books |-> loop.all_books,
              trace |-> loop.trace]

search_books_naver(keywords, answers) ==
    IF SliceRaises(keywords)
    THEN [raised |-> TRUE, value |-> <<>>, all_books |-> <<>>, trace |-> <<>>]
    ELSE LET loop == SearchLoop(Prefix(keywords.items, KeywordCap), answers, 1,
                                <<>>, <<>>)
         IN  [raised |-> FALSE,
              value |-> Deduplicate(loop.all_books, <<>>),
              all_books |-> loop.all_books,
              trace |-> loop.trace]

(***************************************************************************)
(* process_single_topic                                                    *)
(***************************************************************************)
\* One element of result['recommended_books'].
Recommendation(rank, book) ==
    [rank |-> rank, title |-> book.title, isbn |-> book.isbn,
     total_score |-> book.llm_total_score,
     score_details |-> [relevance |-> book.llm_relevance,
                        appropriateness |-> book.llm_appropriateness,
                        reliability |-> book.llm_reliability,
                        recency |-> book.llm_recency,
                        accessibility |-> book.llm_accessibility],
     search_keyword |-> book.search_keyword]

TopicResult(topic, keywords, topic_info, found, verified, recommended) ==
    [topic |-> topic, keywords |-> keywords, topic_analysis |-> topic_info,
     total_books_found |-> found, verified_books_count |-> verified,
     recommended_books |-> recommended]

\* The dict returned by the except branch: {'error': str(e)}.
ErrorInfo ==
    TopicInfo(Missing, Missing, Missing, Missing, Missing, Missing,
              JStr("exception"))

\* Mutant of ErrorResult: the except branch returns the analyzer's sentinel
\* record, without the error text.
ErrorResult_NoErrorText(topic) ==
    TopicResult(topic, JList(<<>>), SentinelInfo, 0, 0, <<>>)

ErrorResult(topic) == TopicResult(topic, JList(<<>>), ErrorInfo, 0, 0, <<>>)

\* The entries log_api_call appended during one topic.
UsageOf(analysis, verification) ==
    (IF analysis.logged THEN log_api_call(<<>>, "keyword_extraction") ELSE <<>>)
    \o (IF verification.logged THEN log_api_call(<<>>, "book_verification")
        ELSE <<>>)

\* env is the behaviour of the collaborators during the call: the analyzer's
\* model response, the answers of the search service, the verifier's model
\* response and the outcomes of the two logging calls.
process_single_topic(topic, env) ==
    LET analysis == extract_keywords_with_gemini(env.analysis, env.analysis_log_ok)
        keywords == analysis.keywords
        topic_info == analysis.topic_info
        search == search_books_naver(keywords, env.answers)
        books == search.value
        verification == verify_books_with_llm(books, topic_info, env.verification,
                                              env.verify_log_ok)
        verified_books == verification.value
        top_books == Prefix(verified_books, TopN)
    IN  IF search.raised
        THEN [result |-> ErrorResult(topic), caught |-> TRUE,
              usage |-> UsageOf(analysis, VerifyEmpty(FALSE, FALSE)),
              trace |-> <<Event("analyze", topic)>>]
        ELSE IF verification.raised
        THEN [result |-> ErrorResult(topic), caught |-> TRUE,
              usage |-> UsageOf(analysis, verification),
              trace |-> <<Event("analyze", topic)>> \o search.trace]
        ELSE [result |-> TopicResult(topic, keywords, topic_info, Len(books),
                             Len(verified_books),
                             [i \in 1..Len(top_books) |->
                                 Recommendation(i, top_books[i])]),
              caught |-> FALSE,
              usage |-> UsageOf(analysis, verification),
              trace |-> <<Event("analyze", topic)>> \o search.trace
                        \o (IF verification.called
                            THEN <<Event("verify", topic)>> ELSE <<>>)]

(***************************************************************************)
(* Inputs of verify_books_with_llm.                                        *)
(***************************************************************************)
NoValue == [ty |-> "none", kind |-> "none"]

\* The i-th candidate of a deduplicated search result.
Candidate(i) == Book(i, <<i>>, JStr("k1"))

Candidates(n) == [i \in 1..n |-> Candidate(i)]

SeqsUpTo(S, n) == UNION {[1..m -> S] : m \in 0..n}

\* Sub-scores within the ranges of the prompt, and a vector with a relevance
\* above its range and the other sub-scores absent.
InRangeScores ==
    <<JNum(MaxRelevance), JNum(MaxAppropriateness), JNum(MaxReliability),
      JNum(MaxRecency), JNum(MaxAccessibility)>>

OutOfRangeScores == <<JNum(MaxRelevance + 1), Missing, Missing, Missing, Missing>>

ScoreVectors == {InRangeScores, OutOfRangeScores}

TotalScores == {Missing, JNum(100), JStr("a")}

BookNumbers == {Missing} \cup {JNum(n) : n \in -1..MaxBooks + 1}

\* The elements a model can put in book_scores: objects, and a non-object.
ScoreEntries ==
    {ScoreInfo(b, v, t) : b \in BookNumbers, v \in ScoreVectors, t \in TotalScores}
    \cup {JNum(0)}

ScoresResponse(book_scores) == [kind |-> "object", book_scores |-> book_scores]

VerifyResponses ==
    {RespRaise, RespUnparsable, RespNonObject,
     ScoresResponse(Missing), ScoresResponse(JNum(0))}
    \cup {ScoresResponse(JList(e)) : e \in SeqsUpTo(ScoreEntries, MaxEntries)}

\* An analysis whose book_types can be joined, and one whose cannot.
GoodInfo ==
    TopicInfo(JList(<<JStr("k1")>>), JStr("physics"), JStr("medium"),
              JList(<<>>), JList(<<JStr("intro")>>), JStr("none"), Missing)

BadTypesInfo == [GoodInfo EXCEPT !.book_types = JList(<<JNum(1)>>)]

\* log_api_call is reached only when the model call returned a text.
LogOutcomes(resp) == IF HasText(resp) THEN BOOLEAN ELSE {TRUE}

(***************************************************************************)
(* SpecVerify: one call of verify_books_with_llm.                          *)
(***************************************************************************)
InitVerify ==
    /\ pc = "verify"
    /\ \E n \in 1..MaxBooks :
         \/ \E resp \in VerifyResponses :
               \E log_ok \in LogOutcomes(resp) :
                  call = [books |-> Candidates(n), topic_info |-> GoodInfo,
                          response |-> resp, log_ok |-> log_ok]
         \* the prompt cannot be built: the model is never called
         \/ call = [books |-> Candidates(n), topic_info |-> BadTypesInfo,
                    response |-> NoValue, log_ok |-> TRUE]
    /\ ret = NoValue
    /\ usage_log = <<>>
    /\ processed_count = 0
    /\ total_count = 0
    /\ df = <<>>
    /\ topics = <<>>
    /\ results = <<>>
    /\ keywords_list = <<>>
    /\ academic_fields = <<>>
    /\ environ = AllSet
    /\ timeline = <<>>

Verify ==
    /\ pc = "verify"
    /\ LET r == verify_books_with_llm(call.books, call.topic_info, call.response,
                                      call.log_ok)
       IN  /\ ret' = r
           /\ usage_log' = IF r.logged
                           THEN log_api_call(usage_log, "book_verification")
                           ELSE usage_log
    /\ pc' = "verified"
    /\ UNCHANGED <<call, batchVars, environ, timeline>>

NextVerify == Verify

SpecVerify == InitVerify /\ [][NextVerify]_vars

(***************************************************************************)
(* Properties of verify_books_with_llm (checked under SpecVerify).         *)
(***************************************************************************)
SubScoreSum(book) ==
    book.llm_relevance.n + book.llm_appropriateness.n + book.llm_reliability.n
    + book.llm_recency.n + book.llm_accessibility.n

\* The score entries of the response of the current call, when the response
\* is an object whose book_scores is a list.
ResponseEntries ==
    IF call.response.kind = "object" /\ call.response.book_scores.ty = "list"
    THEN call.response.book_scores.items ELSE <<>>

\* The entry declares a number as its book_number.
DeclaresNumber(e) == e.ty = "dict" /\ e.book_number.ty = "num"

\* The entry declares an ordinal of the submitted list.
DeclaresOrdinalOf(e, books) ==
    DeclaresNumber(e) /\ e.book_number.n \in 1..Len(books)

\* The model call returned, logging succeeded, the response is an object
\* with a list of score entries, every entry is an object that declares a
\* number, and the totals of the entries kept can be compared.
WellFormedScores ==
    /\ call.response.kind = "object"
    /\ call.log_ok
    /\ call.response.book_scores.ty = "list"
    /\ \A i \in 1..Len(ResponseEntries) : DeclaresNumber(ResponseEntries[i])
    /\ \A i, j \in 1..Len(ResponseEntries) :
          DeclaresOrdinalOf(ResponseEntries[i], call.books)
          /\ DeclaresOrdinalOf(ResponseEntries[j], call.books)
          => Get(ResponseEntries[i].total_score, JNum(0)).ty
             = Get(ResponseEntries[j].total_score, JNum(0)).ty

\* C2: every scored candidate returned by verify_books_with_llm has a total
\* score equal to the sum of its five sub-scores.
C2_TotalIsSumOfSubScores ==
    pc = "verified" =>
        \A i \in 1..Len(ret.value) :
            /\ ret.value[i].llm_total_score.ty = "num"
            /\ ret.value[i].llm_total_score.n = SubScoreSum(ret.value[i])

\* C3: every scored candidate returned by verify_books_with_llm has each
\* sub-score within its range (relevance 0..30, appropriateness 0..25,
\* reliability 0..20, recency 0..15, accessibility 0..10).
C3_SubScoresInRange ==
    pc = "verified" =>
        \A i \in 1..Len(ret.value) :
            /\ ret.value[i].llm_relevance.n \in 0..MaxRelevance
            /\ ret.value[i].llm_appropriateness.n \in 0..MaxAppropriateness
            /\ ret.value[i].llm_reliability.n \in 0..MaxReliability
            /\ ret.value[i].llm_recency.n \in 0..MaxRecency
            /\ ret.value[i].llm_accessibility.n \in 0..MaxAccessibility

\* C6: a score entry whose declared book_number is outside 1..len(submitted
\* candidates) is dropped alone: the call does not raise, the output holds
\* exactly one scored candidate per entry with an ordinal in range, and each
\* such entry is in the output with the scores it gave to its candidate.
C6_OnlyBadOrdinalDropped ==
    pc = "verified" /\ WellFormedScores =>
        /\ ~ret.raised
        /\ Len(ret.value) =
             Cardinality({i \in 1..Len(ResponseEntries) :
                             DeclaresOrdinalOf(ResponseEntries[i], call.books)})
        /\ \A i \in 1..Len(ResponseEntries) :
              DeclaresOrdinalOf(ResponseEntries[i], call.books) =>
                 \E j \in 1..Len(ret.value) :
                    ret.value[j] =
                       ScoredBook(call.books[ResponseEntries[i].book_number.n],
                                  ResponseEntries[i])

\* Witness of C6: the response holds an entry whose ordinal is 0 or above
\* the list length and an entry with an ordinal in range, and the output is
\* the one scored candidate of the latter.
C6_Witness ==
    /\ pc = "verified" /\ WellFormedScores
    /\ \E i, j \in 1..Len(ResponseEntries) :
          /\ ~DeclaresOrdinalOf(ResponseEntries[i], call.books)
          /\ DeclaresOrdinalOf(ResponseEntries[j], call.books)
    /\ Len(ret.value) = 1

\* The call failed as a whole: no text, logging raised, the text is no JSON
\* object, book_scores is no list, an entry is no object or declares a
\* book_number that is no number, or two entries kept have totals that cannot
\* be compared.
VerifyCallFails ==
    \/ ~HasText(call.response)
    \/ ~call.log_ok
    \/ call.response.kind \in {"unparsable", "nonobject"}
    \/ /\ call.response.kind = "object"
       /\ call.response.book_scores.ty \notin {"list", "missing"}
    \/ \E i \in 1..Len(ResponseEntries) :
          \/ ResponseEntries[i].ty # "dict"
          \/ ResponseEntries[i].book_number.ty \notin {"num", "missing"}
    \/ \E i, j \in 1..Len(ResponseEntries) :
          /\ DeclaresOrdinalOf(ResponseEntries[i], call.books)
          /\ DeclaresOrdinalOf(ResponseEntries[j], call.books)
          /\ Get(ResponseEntries[i].total_score, JNum(0)).ty
             # Get(ResponseEntries[j].total_score, JNum(0)).ty

\* C7: when the model call raises, the response cannot be parsed, or the
\* processing of an entry fails, verify_books_with_llm returns the empty
\* list: it does not raise and returns no partial list.
C7_FailureYieldsEmptyList ==
    pc = "verified" /\ VerifyCallFails => ~ret.raised /\ ret.value = <<>>

\* Witness of C7: the first entry is valid and in range, a later entry is no
\* object, and the result is the empty list.
C7_Witness ==
    /\ pc = "verified"
    /\ Len(ResponseEntries) >= 2
    /\ call.log_ok
    /\ DeclaresOrdinalOf(ResponseEntries[1], call.books)
    /\ ResponseEntries[2].ty # "dict"
    /\ ret.value = <<>>

\* C10: the result of verify_books_with_llm does not depend on the outcome
\* of the usage-logging call.
C10_LoggingFailureSwallowed ==
    pc = "verified" =>
        ret.value = verify_books_with_llm(call.books, call.topic_info,
                                          call.response, TRUE).value

\* The position of a scored candidate in the submitted list.
SubmittedPosition(book) ==
    CHOOSE p \in 1..Len(call.books) : call.books[p].isbn = book.isbn

\* C17: two scored candidates with equal total score appear in the output
\* of verify_books_with_llm in the order of their positions in the submitted
\* candidate list, whatever the order of the score entries of the response.
C17_TiesInSubmittedOrder ==
    pc = "verified" =>
        \A i, j \in 1..Len(ret.value) :
            i < j /\ ret.value[i].llm_total_score = ret.value[j].llm_total_score
            => SubmittedPosition(ret.value[i]) <= SubmittedPosition(ret.value[j])

\* C20: a scored candidate for position p of the submitted list is in the
\* output of verify_books_with_llm only if the response holds a score entry
\* that declares book_number = p; an entry that declares no book_number is
\* attributed to no candidate.
C20_OnlyDeclaredOrdinalsScored ==
    pc = "verified" =>
        \A k \in 1..Len(ret.value) :
            \E i \in 1..Len(ResponseEntries) :
                /\ DeclaresNumber(ResponseEntries[i])
                /\ ResponseEntries[i].book_number.n = SubmittedPosition(ret.value[k])

(***************************************************************************)
(* Inputs of search_books_naver.                                           *)
(***************************************************************************)
MaxKeywords == 4    \* length of a keyword list
MaxHits == 3        \* hits returned by the service during one search

KeywordNames == <<"k1", "k2", "k3", "k4", "k5", "k6">>

Keyword(i) == JStr(KeywordNames[i])

\* A list of n distinct keyword strings.
KeywordList(n) == JList([i \in 1..n |-> Keyword(i)])

\* keywords values: lists of strings, a list holding a number, and a value
\* that is no list (a JSON number or null).
KeywordValues ==
    {KeywordList(n) : n \in 0..MaxKeywords}
    \cup {JList(<<JNum(1)>>), JNum(0)}

\* Raw isbn fields: absent or empty, one code, two codes, whitespace only.
IsbnFields == {<<>>, <<1>>, <<2>>, <<1, Space, 2>>, <<Space>>}

\* The title of the j-th hit of the i-th request (it identifies the hit).
TitleOf(i, j) == 10 * i + j

OkAnswer(items) == [kind |-> "ok", items |-> items]

FailedAnswers == {[kind |-> "raise"], [kind |-> "non200"], [kind |-> "badjson"]}

\* The answers to request i that carry h hits with isbn fields of a set.
OkAnswers(i, h, fields) ==
    {OkAnswer([j \in 1..h |-> Hit(TitleOf(i, j), f[j])]) : f \in [1..h -> fields]}

\* The hits an answer carries.
HitsIn(answer) == IF answer.kind = "ok" THEN Len(answer.items) ELSE 0

\* The answers to request i when n requests are made and budget more hits
\* may be returned; NoValue when the request is not made.
AnswerChoices(i, n, budget, failures, fields) ==
    IF i > n THEN {NoValue}
    ELSE failures \cup UNION {OkAnswers(i, h, fields) : h \in 0..budget}

(***************************************************************************)
(* SpecSearch: one call of search_books_naver.                             *)
(***************************************************************************)
InitSearch ==
    /\ pc = "search"
    /\ \E keywords \in KeywordValues :
         LET n == NumRequests(keywords) IN
         \E a1 \in AnswerChoices(1, n, MaxHits, FailedAnswers, IsbnFields) :
            \E a2 \in AnswerChoices(2, n, MaxHits - HitsIn(a1), FailedAnswers,
                                    IsbnFields) :
               \E a3 \in AnswerChoices(3, n, MaxHits - HitsIn(a1) - HitsIn(a2),
                                       FailedAnswers, IsbnFields) :
                  call = [keywords |-> keywords,
                          answers |-> Prefix(<<a1, a2, a3>>, n)]
    /\ ret = NoValue
    /\ usage_log = <<>>
    /\ processed_count = 0
    /\ total_count = 0
    /\ df = <<>>
    /\ topics = <<>>
    /\ results = <<>>
    /\ keywords_list = <<>>
    /\ academic_fields = <<>>
    /\ environ = AllSet
    /\ timeline = <<>>

Search ==
    /\ pc = "search"
    /\ ret' = search_books_naver(call.keywords, call.answers)
    /\ pc' = "searched"
    /\ UNCHANGED <<call, usage_log, batchVars, environ, timeline>>

\* Mutant of SecondSearch: the object remembers the identifiers it returned
\* and a later call leaves them out.
SecondSearch_SkipsSeen(first, keywords, answers) ==
    LET r == search_books_naver(keywords, answers) IN
    [r EXCEPT !.value =
        SelectSeq(r.value,
                  LAMBDA b : \A k \in 1..Len(first.value) : first.value[k].isbn # b.isbn)]

\* A second call on the same object: all_books (line 238) and unique_books
\* (line 285) are locals, so nothing of the first call is carried over.
SecondSearch(first, keywords, answers) == search_books_naver(keywords, answers)

\* search_books_naver is called again with the same keywords, and the
\* service gives the same answers.
SearchAgain ==
    /\ pc = "searched"
    /\ ret' = [first |-> ret,
               second |-> SecondSearch(ret, call.keywords, call.answers)]
    /\ pc' = "searched_twice"
    /\ UNCHANGED <<call, usage_log, batchVars, environ, timeline>>

NextSearch == Search \/ SearchAgain

SpecSearch == InitSearch /\ [][NextSearch]_vars

(***************************************************************************)
(* Properties of search_books_naver (checked under SpecSearch).            *)
(***************************************************************************)
\* The first position of all_books that holds a book with this isbn.
FirstWith(all_books, isbn) ==
    CHOOSE i \in 1..Len(all_books) :
        /\ all_books[i].isbn = isbn
        /\ \A j \in 1..(i - 1) : all_books[j].isbn # isbn

\* The hits of the answers with status 200, as (request, position) pairs.
AnsweredHits ==
    {<<i, j>> \in (1..Len(call.answers)) \X (1..MaxHits + 1) :
        call.answers[i].kind = "ok" /\ j <= Len(call.answers[i].items)}

RawIsbn(h) == call.answers[h[1]].items[h[2]].isbn

\* Every hit with an isbn field can be normalized.
AllHitsNormalizable == \A h \in AnsweredHits : RawIsbn(h) = <<>> \/ Split(RawIsbn(h)) # <<>>

\* C4: search_books_naver returns exactly one candidate for each identifier
\* among the hits it collected; the candidate kept is the first hit with that
\* identifier in keyword order and then hit order; the returned list is in
\* the order of first occurrence and no two candidates share an identifier.
\* When every hit can be normalized, the identifiers returned are those of
\* all the hits of the answered requests that have an isbn field.
C4_FirstOccurrenceWins ==
    pc = "searched" /\ ~ret.raised =>
        LET all_books == ret.all_books
            unique == ret.value
        IN  \* the hits are collected in keyword order, then hit order
            /\ \A i, j \in 1..Len(all_books) :
                  i < j => all_books[i].title < all_books[j].title
            /\ \A i, j \in 1..Len(unique) :
                  i # j => unique[i].isbn # unique[j].isbn
            /\ \A i \in 1..Len(all_books) :
                  \E j \in 1..Len(unique) :
                     unique[j] = all_books[FirstWith(all_books, all_books[i].isbn)]
            /\ \A j \in 1..Len(unique) :
                  \E i \in 1..Len(all_books) : unique[j] = all_books[i]
            /\ \A i, j \in 1..Len(unique) :
                  i < j => unique[i].title < unique[j].title
            /\ AllHitsNormalizable =>
                  {unique[j].isbn : j \in 1..Len(unique)}
                  = {LET t == Split(RawIsbn(h)) IN t[Len(t)] :
                        h \in {g \in AnsweredHits : RawIsbn(g) # <<>>}}

\* Witness of C4: two requests returned a hit with the same identifier, a
\* second identifier was found too, and the candidate of the shared identifier
\* is the hit of the earlier request.
C4_Witness ==
    /\ pc = "searched" /\ ~ret.raised
    /\ \E i, j \in 1..Len(ret.all_books) :
          /\ i < j
          /\ ret.all_books[i].isbn = ret.all_books[j].isbn
          /\ ret.all_books[i].search_keyword # ret.all_books[j].search_keyword
          /\ \E k \in 1..Len(ret.value) : ret.value[k] = ret.all_books[i]
    /\ Len(ret.value) = 2

\* The processing of the i-th keyword fails: the request raises, the status
\* is not 200, the body cannot be decoded, or a hit cannot be normalized.
KeywordFails(i) ==
    \/ call.answers[i].kind \in {"raise", "non200", "badjson"}
    \/ /\ call.answers[i].kind = "ok"
       /\ \E j \in 1..Len(call.answers[i].items) :
             /\ call.answers[i].items[j].isbn # <<>>
             /\ Split(call.answers[i].items[j].isbn) = <<>>

\* The keywords search_books_naver consults.
Consulted == Prefix(call.keywords.items, KeywordCap)

\* The i-th consulted keyword was requested from the service.
Requested(i) ==
    \E t \in 1..Len(ret.trace) : ret.trace[t] = Event("request", Consulted[i])

\* C11: when the processing of one keyword fails, the returned list holds no
\* candidate whose search_keyword is that keyword; every keyword among the
\* first 3 is still queried, and every hit with an identifier of a keyword
\* that did not fail is collected.
C11_FailingKeywordContributesNothing ==
    pc = "searched" /\ ~ret.raised =>
        \A i \in 1..Len(call.answers) :
            /\ Requested(i)
            /\ KeywordFails(i) =>
                  \A k \in 1..Len(ret.value) :
                     ret.value[k].search_keyword # Consulted[i]
            /\ ~KeywordFails(i) /\ call.answers[i].kind = "ok" =>
                  \A j \in 1..Len(call.answers[i].items) :
                     call.answers[i].items[j].isbn # <<>> =>
                        \E k \in 1..Len(ret.all_books) :
                           /\ ret.all_books[k].title = call.answers[i].items[j].title
                           /\ ret.all_books[k].search_keyword = Consulted[i]

\* The requests issued, in order.
RequestsIssued == SelectSeq(ret.trace, LAMBDA e : e.ev = "request")

\* C12: search_books_naver issues one request for each of the keywords at
\* positions 1..3 of its input, in that order, and no other request: with
\* fewer than 3 keywords it queries exactly those present, and with an empty
\* list it issues no request and returns the empty list.
C12_RequestsFirstThreeInOrder ==
    pc = "searched" /\ ~ret.raised =>
        LET n == IF Len(call.keywords.items) < 3
                 THEN Len(call.keywords.items) ELSE 3
        IN  /\ RequestsIssued = [i \in 1..n |-> Event("request", call.keywords.items[i])]
            /\ call.keywords.items = <<>> => ret.trace = <<>> /\ ret.value = <<>>

\* Witness of C12: the list holds more than 3 keywords, three requests were
\* issued and the hit of the third one is in the result.
C12_Witness ==
    /\ pc = "searched" /\ ~ret.raised
    /\ Len(call.keywords.items) > 3
    /\ Len(RequestsIssued) = 3
    /\ \E k \in 1..Len(ret.value) : ret.value[k].search_keyword = call.keywords.items[3]

\* No identifier is shared by two of the hits collected.
NoSharedIdentifier(all_books) ==
    \A i, j \in 1..Len(all_books) : i # j => all_books[i].isbn # all_books[j].isbn

C14_DelayBetweenRequests ==
    pc = "searched" /\ ~ret.raised =>
        \A t \in 1..Len(ret.trace) - 1 :
            ret.trace[t].ev = "request" => ret.trace[t + 1].ev = "sleep"

\* The hit a candidate came from: its title identifies it.
HitOf(book) == CHOOSE h \in AnsweredHits : call.answers[h[1]].items[h[2]].title = book.title

\* C21: every candidate returned by search_books_naver has a non-empty
\* identifier equal to the last whitespace-delimited token of the identifier
\* field of the hit it came from; a hit whose identifier field is missing or
\* empty produces no candidate.
C21_IdentifierIsLastToken ==
    pc = "searched" /\ ~ret.raised =>
        /\ \A k \in 1..Len(ret.value) :
              /\ \E h \in AnsweredHits :
                    call.answers[h[1]].items[h[2]].title = ret.value[k].title
              /\ LET tokens == Split(RawIsbn(HitOf(ret.value[k]))) IN
                    /\ tokens # <<>>
                    /\ ret.value[k].isbn = tokens[Len(tokens)]
              /\ ret.value[k].isbn # <<>>
              /\ Space \notin Range(ret.value[k].isbn)
        /\ \A h \in AnsweredHits :
              RawIsbn(h) = <<>> =>
                 \A k \in 1..Len(ret.all_books) :
                    ret.all_books[k].title # call.answers[h[1]].items[h[2]].title

\* Witness of C21: a hit with a two-token identifier field gave a candidate
\* with the second token, and a hit without identifier was answered too.
C21_Witness ==
    /\ pc = "searched" /\ ~ret.raised
    /\ \E k \in 1..Len(ret.value) :
          /\ Len(Split(RawIsbn(HitOf(ret.value[k])))) = 2
          /\ ret.value[k].isbn = Split(RawIsbn(HitOf(ret.value[k])))[2]
    /\ \E h \in AnsweredHits : RawIsbn(h) = <<>>

(***************************************************************************)
(* Inputs of process_single_topic.                                         *)
(***************************************************************************)
MaxTopicKeywords == 2   \* keywords in an analysis
MaxTopicHits == 2       \* hits returned by the service for one topic
MaxTopicEntries == 3    \* score entries in a verification response

AnalysisResponse(info) == [kind |-> "object", info |-> info]

\* An analysis object with these keywords, academic field and book types.
InfoWith(keywords, academic_field, book_types) ==
    TopicInfo(keywords, academic_field, JStr("medium"), JList(<<>>), book_types,
              JStr("none"), Missing)

TopicKeywordValues ==
    {Missing, JNum(0), JList(<<JNum(1)>>)}
    \cup {KeywordList(n) : n \in 0..MaxTopicKeywords}

BookTypeValues == {JList(<<JStr("intro")>>), JList(<<JNum(1)>>)}

TopicAnalyses ==
    {RespRaise, RespUnparsable, RespNonObject}
    \cup {AnalysisResponse(InfoWith(k, JStr("physics"), b)) :
             k \in TopicKeywordValues, b \in BookTypeValues}

TopicScoreEntries ==
    {ScoreInfo(JNum(b), InRangeScores, JNum(t)) : b \in 1..2, t \in {50, 100}}

TopicVerifyResponses ==
    {RespRaise, RespUnparsable}
    \cup {ScoresResponse(JList(e)) : e \in SeqsUpTo(TopicScoreEntries, MaxTopicEntries)}

Environment(analysis, analysis_log_ok, answers, verification, verify_log_ok) ==
    [analysis |-> analysis, analysis_log_ok |-> analysis_log_ok,
     answers |-> answers, verification |-> verification,
     verify_log_ok |-> verify_log_ok]

\* The verifier's model call is made during the topic: search returned
\* candidates and the prompt could be built.
VerifierCalled(analysis, analysis_log_ok, answers) ==
    LET a == extract_keywords_with_gemini(analysis, analysis_log_ok)
        s == search_books_naver(a.keywords, answers)
    IN  verify_books_with_llm(s.value, a.topic_info, RespRaise, TRUE).called

\* The answers of the service to the n requests of one topic: a request
\* raises or returns hits with a single isbn code.
TopicAnswers(n) ==
    LET failures == {[kind |-> "raise"]}
        fields == {<<1>>, <<2>>}
    IN  {Prefix(<<a[1], a[2], a[3]>>, n) :
            a \in {x \in AnswerChoices(1, n, MaxTopicHits, failures, fields)
                          \X AnswerChoices(2, n, MaxTopicHits, failures, fields)
                          \X AnswerChoices(3, n, MaxTopicHits, failures, fields) :
                      HitsIn(x[1]) + HitsIn(x[2]) + HitsIn(x[3]) <= MaxTopicHits}}

\* The number of search requests made during the topic.
RequestsOf(analysis, analysis_log_ok) ==
    NumRequests(extract_keywords_with_gemini(analysis, analysis_log_ok).keywords)

\* The outcomes of a call that is made only when the verifier runs.
WhenVerifierCalled(analysis, analysis_log_ok, answers, outcomes, none) ==
    IF VerifierCalled(analysis, analysis_log_ok, answers) THEN outcomes ELSE {none}

(***************************************************************************)
(* SpecTopic: one call of process_single_topic.                            *)
(***************************************************************************)
InitTopic ==
    /\ pc = "topic"
    /\ \E a \in TopicAnalyses :
         \E la \in LogOutcomes(a) :
            \E ans \in TopicAnswers(RequestsOf(a, la)) :
               \E v \in WhenVerifierCalled(a, la, ans, TopicVerifyResponses, NoValue) :
                  \E lv \in WhenVerifierCalled(a, la, ans, BOOLEAN, TRUE) :
                     call = [topic |-> JStr("t1"),
                             env |-> Environment(a, la, ans, v, lv)]
    /\ ret = NoValue
    /\ usage_log = <<>>
    /\ processed_count = 0
    /\ total_count = 1
    /\ df = <<>>
    /\ topics = <<>>
    /\ results = <<>>
    /\ keywords_list = <<>>
    /\ academic_fields = <<>>
    /\ environ = AllSet
    /\ timeline = <<>>

ProcessTopic ==
    /\ pc = "topic"
    /\ LET r == process_single_topic(call.topic, call.env)
       IN  /\ ret' = r
           /\ usage_log' = usage_log \o r.usage
    /\ processed_count' = processed_count + 1
    /\ pc' = "topic_done"
    /\ UNCHANGED <<call, total_count, df, topics, results, keywords_list,
                   academic_fields, environ, timeline>>

NextTopic == ProcessTopic

SpecTopic == InitTopic /\ [][NextTopic]_vars

(***************************************************************************)
(* Properties of process_single_topic (checked under SpecTopic).           *)
(***************************************************************************)
\* C1: the TopicResult returned by process_single_topic has at most 2
\* recommended books, in non-increasing order of total_score.
C1_AtMostTwoSortedDescending ==
    pc = "topic_done" =>
        LET rec == ret.result.recommended_books IN
        /\ Len(rec) <= 2
        /\ \A i, j \in 1..Len(rec) :
              i < j => ~KeyLess(rec[i].total_score, rec[j].total_score)

\* Witness of C1: the model scored three entries, the first of them with the
\* lower total, and the two books recommended have totals 100 and 50.
C1_Witness ==
    /\ pc = "topic_done"
    /\ ret.result.verified_books_count = 3
    /\ call.env.verification.book_scores.items[1].total_score.n = 50
    /\ Len(ret.result.recommended_books) = 2
    /\ ret.result.recommended_books[1].total_score.n = 100
    /\ ret.result.recommended_books[2].total_score.n = 50

\* The analyzer's model call failed: it raised, or its response is no JSON
\* object.
AnalyzerCallFails ==
    call.env.analysis.kind \in {"raise", "unparsable", "nonobject"}

\* C5: when the analyzer's model call fails, process_single_topic returns,
\* without catching an exception, the TopicResult with the empty keyword
\* list, the sentinel analysis (field 'unclassified', empty collections, the
\* failure note), total_books_found = 0 and no recommended book; no search
\* request and no verifier call is made.
C5_AnalyzerFailureYieldsEmptyResult ==
    pc = "topic_done" /\ AnalyzerCallFails =>
        /\ ~ret.caught
        /\ ret.result.topic = call.topic
        /\ ret.result.keywords = JList(<<>>)
        /\ ret.result.topic_analysis.keywords = JList(<<>>)
        /\ ret.result.topic_analysis.academic_field = JStr("unclassified")
        /\ ret.result.topic_analysis.additional_keywords = JList(<<>>)
        /\ ret.result.topic_analysis.book_types = JList(<<>>)
        /\ ret.result.topic_analysis.cautions = JStr("api_error_processing_failed")
        /\ ret.result.total_books_found = 0
        /\ ret.result.verified_books_count = 0
        /\ ret.result.recommended_books = <<>>
        /\ ret.trace = <<Event("analyze", call.topic)>>

\* Witness of C5: the analyzer's response was valid JSON but no object, and
\* the topic ended with the sentinel analysis.
C5_Witness ==
    /\ pc = "topic_done"
    /\ call.env.analysis.kind = "nonobject"
    /\ ret.result.topic_analysis = SentinelInfo

\* The analysis of the current call is the model's JSON object.
AnalysisAccepted ==
    call.env.analysis.kind = "object" /\ call.env.analysis_log_ok

\* The search step raises: the keywords value of the analysis is no list.
SearchStepRaises ==
    /\ AnalysisAccepted
    /\ call.env.analysis.info.keywords.ty \notin {"list", "missing"}

\* The verify step raises: candidates were found and the book_types of the
\* analysis cannot be joined into the prompt.
VerifyStepRaises ==
    /\ AnalysisAccepted
    /\ call.env.analysis.info.keywords.ty = "list"
    /\ \E i \in 1..Len(call.env.answers) :
          call.env.answers[i].kind = "ok" /\ call.env.answers[i].items # <<>>
    /\ \E i \in 1..Len(call.env.analysis.info.book_types.items) :
          call.env.analysis.info.book_types.items[i].ty # "str"

AnalysisFields ==
    {"keywords", "academic_field", "difficulty_level", "additional_keywords",
     "book_types", "cautions"}

\* C18: for a response of the model that is a JSON object lacking some of the
\* analysis fields, the analysis returned by extract_keywords_with_gemini
\* still holds every field, a missing one set to its default.
C18_AnalysisStructurallyComplete ==
    pc = "topic_done" /\ call.env.analysis.kind = "object" /\ call.env.analysis_log_ok =>
        LET topic_info == extract_keywords_with_gemini(call.env.analysis,
                                                       call.env.analysis_log_ok).topic_info
        IN  \A f \in AnalysisFields : topic_info[f] # Missing

\* C26: for every TopicResult, the number of recommended books is at most
\* verified_books_count, which is at most total_books_found: each candidate
\* found by the search appears at most once in the output of the verifier,
\* so no book is recommended twice for one topic, also when the response of
\* the model repeats an ordinal.
C26_EachCandidateVerifiedOnce ==
    pc = "topic_done" =>
        LET rec == ret.result.recommended_books IN
        /\ Len(rec) <= ret.result.verified_books_count
        /\ ret.result.verified_books_count <= ret.result.total_books_found
        /\ \A i, j \in 1..Len(rec) : i # j => rec[i].isbn # rec[j].isbn

(***************************************************************************)
(* process_excel_file                                                      *)
(***************************************************************************)
MaxTopics == 3      \* rows of the spreadsheet

\* A blank cell of the 'task' column (NaN).
Blank == [ty |-> "nan"]

TopicNames == <<"t1", "t2", "t3", "t4">>

Topic(i) == JStr(TopicNames[i])

\* The 'task' columns of at most MaxTopics rows: row i holds topic i or is
\* blank.
Sheets ==
    UNION {{[i \in 1..n |-> IF i \in filled THEN Topic(i) ELSE Blank] :
               filled \in SUBSET (1..n)} : n \in 0..MaxTopics}

\* df['task'].dropna().tolist()
RECURSIVE DropNa(_)
DropNa(column) ==
    IF column = <<>> THEN <<>>
    ELSE IF Head(column) = Blank THEN DropNa(Tail(column))
         ELSE <<Head(column)>> \o DropNa(Tail(column))

\* ', '.join(result['keywords']): the parts of the joined string.
Joined(keywords) == [i \in 1..Len(keywords.items) |-> keywords.items[i].s]

\* result['topic_analysis'].get('academic_field', 'unclassified')
FieldLabel(result) == Get(result.topic_analysis.academic_field, JStr("unclassified"))

\* Counter(academic_fields) raises TypeError on an unhashable label.
CounterRaises(labels) == \E i \in 1..Len(labels) : labels[i].ty = "list"

\* dict(Counter(academic_fields))
FieldCounts(labels) ==
    [label \in Range(labels) |->
        Cardinality({i \in 1..Len(labels) : labels[i] = label})]

\* Mutant of SumFound: the verified candidates are summed.
RECURSIVE SumFound_Verified(_)
SumFound_Verified(rs) ==
    IF rs = <<>> THEN 0
    ELSE Head(rs).verified_books_count + SumFound_Verified(Tail(rs))

RECURSIVE SumFound(_)
SumFound(rs) ==
    IF rs = <<>> THEN 0 ELSE Head(rs).total_books_found + SumFound(Tail(rs))

\* round(num / den, 1), as a number of tenths: the nearest tenth, and the
\* even one when num / den lies halfway between two tenths (such a quotient
\* is a multiple of 0.25 or 0.05; for the denominators explored it is a
\* multiple of 0.25, which a float holds exactly).
RoundTenths(num, den) ==
    LET q == (10 * num) \div den
        r == (10 * num) % den
    IN  IF 2 * r < den THEN q
        ELSE IF 2 * r > den THEN q + 1
        ELSE IF q % 2 = 0 THEN q ELSE q + 1

\* The returned dict; average_books_per_topic is held in tenths.
BatchResult(topic_list, rs, labels, log) ==
    [total_topics |-> Len(topic_list),
     results |-> rs,
     statistics |->
        [academic_fields |-> FieldCounts(labels),
         average_books_per_topic |->
            IF rs = <<>> THEN RoundTenths(0, 1)
            ELSE RoundTenths(SumFound(rs), Len(rs)),
         api_calls_total |-> Len(log)]]

Exception(line) == [raised |-> TRUE, line |-> line]

\* The behaviours of the collaborators the batch is explored with.
BatchKeywordValues == {KeywordList(1), JList(<<JNum(1)>>), JNum(0)}

BatchFieldValues == {Missing, JStr("physics"), JList(<<>>)}

BatchAnalyses ==
    {RespRaise, RespUnparsable}
    \cup {AnalysisResponse(InfoWith(k, f, JList(<<JStr("intro")>>))) :
             k \in BatchKeywordValues, f \in BatchFieldValues}

BatchAnswers(n) ==
    IF n = 0 THEN {<<>>}
    ELSE {<<[kind |-> "raise"]>>, <<OkAnswer(<<Hit(TitleOf(1, 1), <<1>>)>>)>>}

BatchVerifyResponses ==
    {RespRaise, RespUnparsable,
     ScoresResponse(JList(<<ScoreInfo(JNum(1), InRangeScores, JNum(100))>>))}

\* State when main() starts: the system is not constructed yet and the
\* spreadsheet (which has a 'task' column) is not read yet.
Init ==
    /\ pc = "new"
    /\ df \in Sheets
    /\ call = NoValue
    /\ ret = NoValue
    /\ usage_log = <<>>
    /\ processed_count = 0
    /\ total_count = 0
    /\ topics = <<>>
    /\ results = <<>>
    /\ keywords_list = <<>>
    /\ academic_fields = <<>>
    /\ environ \in Environs
    /\ timeline = <<>>

\* BookRecommendationSystem(): lines 148-155 raise ValueError when a
\* credential is not set; main() catches it and ends without a batch.
Construct ==
    /\ pc = "new"
    /\ IF ~environ["GOOGLE_API_KEY"]
       THEN pc' = "config_error" /\ ret' = Exception(153)
       ELSE IF ~environ["NAVER_CLIENT_ID"] \/ ~environ["NAVER_CLIENT_SECRET"]
       THEN pc' = "config_error" /\ ret' = Exception(155)
       ELSE pc' = "start" /\ ret' = ret
    /\ UNCHANGED <<call, usage_log, batchVars, environ, timeline>>

\* Lines 466-480: the topics are read and the accumulators are created.
LoadTopics ==
    /\ pc = "start"
    /\ topics' = DropNa(df)
    /\ total_count' = Len(DropNa(df))
    /\ results' = <<>>
    /\ keywords_list' = <<>>
    /\ academic_fields' = <<>>
    /\ pc' = "loop"
    /\ UNCHANGED <<call, ret, usage_log, processed_count, df, environ, timeline>>

\* The fields of the system object that change after construction:
\* processed_count, total_count and the usage log of api_tracker (the cost
\* total is the sum of the costs of the log entries).
System(processed, total, log) ==
    [processed_count |-> processed, total_count |-> total, usage_log |-> log]

\* The object as __init__ leaves it (lines 161-175).
FreshSystem == System(0, 0, <<>>)

\* Mutant of process_single_topic_of: once a model call was logged the
\* analyzer is not called again and its failure value is used.
process_single_topic_of_Cached(system, topic, env) ==
    LET r == IF system.usage_log # <<>>
             THEN process_single_topic(topic, [env EXCEPT !.analysis = RespRaise])
             ELSE process_single_topic(topic, env)
    IN  [result |-> r.result, caught |-> r.caught, usage |-> r.usage,
         trace |-> r.trace,
         system |-> System(system.processed_count + 1, system.total_count,
                           system.usage_log \o r.usage)]

\* process_single_topic as a method of the system object: line 398 counts
\* the topic, the analyzer and the verifier append to the usage log, and
\* nothing of the object is read for the result.
process_single_topic_of(system, topic, env) ==
    LET r == process_single_topic(topic, env) IN
    [result |-> r.result, caught |-> r.caught, usage |-> r.usage,
     trace |-> r.trace,
     system |-> System(system.processed_count + 1, system.total_count,
                       system.usage_log \o r.usage)]

\* An external call or a step of the batch, tagged with its topic.
TopicEvent(topic, ev) == [topic |-> topic, ev |-> ev]

\* The external calls of one process_single_topic call, in order.
CallsOf(topic, r) == [i \in 1..Len(r.trace) |-> TopicEvent(topic, r.trace[i].ev)]

\* Mutant of StepsOf: the pause is skipped after a topic that ended in the
\* error result.
StepsOf_NoPauseAfterError(topic, r) ==
    CallsOf(topic, r) \o <<TopicEvent(topic, "append")>>
    \o (IF JoinRaises(r.result.keywords) \/ r.caught THEN <<>>
        ELSE <<TopicEvent(topic, "pause")>>)

\* The steps of one iteration: the calls of process_single_topic, then
\* results.append (line 484), then time.sleep(0.5) (line 495) unless line
\* 487 raised.
StepsOf(topic, r) ==
    CallsOf(topic, r) \o <<TopicEvent(topic, "append")>>
    \o (IF JoinRaises(r.result.keywords) THEN <<>>
        ELSE <<TopicEvent(topic, "pause")>>)

\* Mutant of LoopBody: the result is put at the front of results.
LoopBody_Prepend(topic, env) ==
    \E r \in {process_single_topic_of(System(processed_count, total_count, usage_log),
                                      topic, env)} :
     \E result \in {r.result} :
        /\ call' = [topic |-> topic, env |-> env]
        /\ processed_count' = r.system.processed_count
        /\ usage_log' = r.system.usage_log
        /\ results' = <<result>> \o results
        /\ timeline' = timeline \o StepsOf(topic, r)
        /\ IF JoinRaises(result.keywords)
           THEN /\ pc' = "raised"
                /\ ret' = Exception(487)
                /\ UNCHANGED <<keywords_list, academic_fields>>
           ELSE /\ pc' = "loop"
                /\ ret' = r
                /\ keywords_list' = Append(keywords_list, Joined(result.keywords))
                /\ academic_fields' = Append(academic_fields, FieldLabel(result))
        /\ UNCHANGED <<df, topics, total_count, environ>>

\* One iteration of the loop of lines 482-495.
LoopBody(topic, env) ==
    \E r \in {process_single_topic_of(System(processed_count, total_count, usage_log),
                                      topic, env)} :
     \E result \in {r.result} :
        /\ call' = [topic |-> topic, env |-> env]
        /\ processed_count' = r.system.processed_count
        /\ usage_log' = r.system.usage_log
        /\ results' = Append(results, result)
        /\ timeline' = timeline \o StepsOf(topic, r)
        /\ IF JoinRaises(result.keywords)
           THEN /\ pc' = "raised"
                /\ ret' = Exception(487)
                /\ UNCHANGED <<keywords_list, academic_fields>>
           ELSE /\ pc' = "loop"
                /\ ret' = r
                /\ keywords_list' = Append(keywords_list, Joined(result.keywords))
                /\ academic_fields' = Append(academic_fields, FieldLabel(result))
        /\ UNCHANGED <<df, topics, total_count, environ>>

ProcessNextTopic ==
    /\ pc = "loop"
    /\ Len(results) < Len(topics)
    /\ LET topic == topics[Len(results) + 1] IN
       \E a \in BatchAnalyses :
          \E ans \in BatchAnswers(RequestsOf(a, TRUE)) :
             \E v \in WhenVerifierCalled(a, TRUE, ans, BatchVerifyResponses, NoValue) :
                LoopBody(topic, Environment(a, TRUE, ans, v, TRUE))

\* Lines 497-520: the columns are attached, the statistics computed and the
\* BatchResult returned.  Assigning a column whose length differs from the
\* number of rows raises ValueError.
Finish ==
    /\ pc = "loop"
    /\ Len(results) = Len(topics)
    /\ IF Len(keywords_list) # Len(df)
       THEN pc' = "raised" /\ ret' = Exception(500)
       ELSE IF CounterRaises(academic_fields)
       THEN pc' = "raised" /\ ret' = Exception(504)
       ELSE /\ pc' = "returned"
            /\ ret' = BatchResult(topics, results, academic_fields, usage_log)
    /\ UNCHANGED <<call, usage_log, batchVars, environ, timeline>>

Next == Construct \/ LoadTopics \/ ProcessNextTopic \/ Finish

Spec == Init /\ [][Next]_vars

(***************************************************************************)
(* Properties of process_excel_file (checked under Spec).                  *)
(***************************************************************************)
\* The 'task' column has no blank cell: it is a list of topics.
NoBlankCell == \A i \in 1..Len(df) : df[i] # Blank

\* C8: for every list of topics and every behaviour of the model and the
\* search service, process_excel_file raises no exception, and the
\* BatchResult it returns holds one result per topic.
C8_BatchNeverRaises ==
    NoBlankCell =>
        /\ pc # "raised"
        /\ pc = "returned" => Len(ret.results) = Len(df)

\* The position of a topic in the list of topics.
TopicIndex(topic) == CHOOSE i \in 1..Len(topics) : topics[i] = topic

\* The place of a step within the processing of one topic.
StepRank(ev) ==
    CASE ev = "analyze" -> 1
      [] ev \in {"request", "sleep"} -> 2
      [] ev = "verify" -> 3
      [] ev = "append" -> 4
      [] ev = "pause" -> 5

\* The number of steps of this kind recorded for the topic.
StepCount(topic, ev) ==
    Cardinality({t \in 1..Len(timeline) : timeline[t] = TopicEvent(topic, ev)})

C16_PauseBetweenTopics ==
    \A s, t \in 1..Len(timeline) :
        /\ s < t
        /\ timeline[s].ev = "append"
        /\ timeline[t].topic # timeline[s].topic
        => \E u \in (s + 1)..(t - 1) :
              timeline[u] = TopicEvent(timeline[s].topic, "pause")

\* Witness of C16: the first topic ended in the error result and the second
\* topic was analyzed after the pause.
C16_Witness ==
    /\ Len(results) >= 2
    /\ results[1] = ErrorResult(topics[1])
    /\ StepCount(topics[1], "pause") = 1
    /\ StepCount(topics[2], "analyze") = 1

\* The sum of the values of a function over a set of its arguments.
RECURSIVE SumOver(_, _)
SumOver(f, S) ==
    IF S = {} THEN 0
    ELSE LET x == CHOOSE y \in S : TRUE IN f[x] + SumOver(f, S \ {x})

\* The label the i-th result contributes to the frequency count.
LabelOf(i) ==
    IF results[i].topic_analysis.academic_field = Missing
    THEN JStr("unclassified")
    ELSE results[i].topic_analysis.academic_field

\* The candidates found for all the topics together.
FoundInAll ==
    SumOver([i \in 1..Len(results) |-> results[i].total_books_found],
            1..Len(results))

\* total_topics, results and the frequency count of the returned
\* BatchResult are those of the topics of the sheet.
CountsAreOfTopics ==
    /\ ret.results = results
    /\ ret.total_topics = Len(ret.results)
    /\ ret.total_topics = Len(DropNa(df))
    /\ \A i \in 1..Len(results) : results[i].topic = DropNa(df)[i]
    /\ DOMAIN ret.statistics.academic_fields = {LabelOf(i) : i \in 1..Len(results)}
    /\ \A i \in 1..Len(results) :
          ret.statistics.academic_fields[LabelOf(i)]
          = Cardinality({j \in 1..Len(results) : LabelOf(j) = LabelOf(i)})
    /\ SumOver(ret.statistics.academic_fields, DOMAIN ret.statistics.academic_fields)
          = ret.total_topics
    /\ results = <<>> => ret.statistics.average_books_per_topic = 0

\* C25 (as stated): in the BatchResult returned by process_excel_file,
\* total_topics equals the number of entries of results and the number of
\* input topics; each topic contributes exactly one label to the frequency
\* count, so the counts sum to the number of topics; and the average is the
\* sum of total_books_found over all results divided by the number of
\* results, 0 for an empty batch.
C25_AverageIsExactQuotient ==
    pc = "returned" =>
        /\ CountsAreOfTopics
        /\ ret.statistics.average_books_per_topic * Len(results)
              = 10 * FoundInAll

\* C25 (amended): as above, but the average is the quotient rounded to one
\* decimal place: no tenth is nearer to the quotient than the average.
C25_AverageIsRoundedQuotient ==
    pc = "returned" =>
        /\ CountsAreOfTopics
        /\ LET d == ret.statistics.average_books_per_topic * Len(results)
                     - 10 * FoundInAll
           IN  2 * d <= Len(results) /\ 2 * d >= 0 - Len(results)

\* Witness of C25: three topics, one of them with the error result, two
\* labels, one candidate found in all, and the average 0.3.
C25_Witness ==
    /\ pc = "returned"
    /\ Len(results) = 3
    /\ \E i \in 1..3 : results[i] = ErrorResult(topics[i])
    /\ Cardinality(DOMAIN ret.statistics.academic_fields) = 2
    /\ FoundInAll = 1
    /\ ret.statistics.average_books_per_topic = 3

\* The entries of a call type in the usage log.
CountOf(log, call_type) == Cardinality({i \in 1..Len(log) : log[i] = call_type})

\* The model calls of a kind made during the last process_single_topic call.
EventsOf(ev) == Cardinality({i \in 1..Len(ret.trace) : ret.trace[i].ev = ev})

\* C27: one call of process_single_topic makes at most one
\* keyword_extraction model call and at most one book_verification model
\* call, and makes the book_verification call only when search returned at
\* least one candidate; the usage log grows by exactly one entry per model
\* call that returned a response, so after n topics it has at most 2n
\* entries, at most n of each call type, and the total call count equals
\* the keyword_extraction count plus the book_verification count.
C27_ModelCallsAndLogEntries ==
    /\ pc = "loop" /\ results # <<>> =>
          /\ EventsOf("analyze") <= 1
          /\ EventsOf("verify") <= 1
          /\ EventsOf("verify") = 1 => ret.result.total_books_found >= 1
          /\ ret.usage =
                (IF EventsOf("analyze") = 1 /\ HasText(call.env.analysis)
                 THEN <<"keyword_extraction">> ELSE <<>>)
                \o (IF EventsOf("verify") = 1 /\ HasText(call.env.verification)
                    THEN <<"book_verification">> ELSE <<>>)
          /\ Len(usage_log) >= Len(ret.usage)
          /\ SubSeq(usage_log, Len(usage_log) - Len(ret.usage) + 1, Len(usage_log))
                = ret.usage
    /\ Len(usage_log) <= 2 * processed_count
    /\ CountOf(usage_log, "keyword_extraction") <= processed_count
    /\ CountOf(usage_log, "book_verification") <= processed_count
    /\ Len(usage_log) = CountOf(usage_log, "keyword_extraction")
                        + CountOf(usage_log, "book_verification")
    /\ pc = "returned" => ret.statistics.api_calls_total = Len(usage_log)

\* Witness of C27: of two topics, the first one's analyzer response could
\* not be parsed (one entry, no search, no verifier call) and the second
\* one made both model calls, the verifier's response being unparsable.
C27_Witness ==
    /\ pc = "loop"
    /\ processed_count = 2
    /\ usage_log = <<"keyword_extraction", "keyword_extraction", "book_verification">>
    /\ results[1].total_books_found = 0
    /\ EventsOf("verify") = 1
    /\ call.env.verification = RespUnparsable

\* C28: for every spreadsheet with a task column, also one in which some
\* task cells are blank, the keyword and academic-field values written back
\* number exactly one per spreadsheet row, so that attaching them to the
\* sheet after the loop does not fail and process_excel_file returns its
\* BatchResult.
C28_OneValuePerRow ==
    /\ pc = "loop" /\ Len(results) = Len(topics) =>
          Len(keywords_list) = Len(df) /\ Len(academic_fields) = Len(df)
    /\ pc = "raised" => ret # Exception(500)
    /\ pc = "returned" => Len(ret.results) = Len(topics)

VerifyCapStep2 == 10

\* self.model is None unless GOOGLE_API_KEY is set (lines 30-35).
ModelLoaded == environ["GOOGLE_API_KEY"]

\* The analysis dict of this system has two more fields.
Step2Info(info, specific_topics, recommended_approach) ==
    [f \in DOMAIN info \cup {"specific_topics", "recommended_approach"} |->
        IF f = "specific_topics" THEN specific_topics
        ELSE IF f = "recommended_approach" THEN recommended_approach
        ELSE info[f]]

\* The dict returned by the except branch of extract_topic_info_with_llm.
SentinelInfoStep2 ==
    Step2Info(TopicInfo(JList(<<>>), JStr("unclassified"), JStr("medium"),
                        JList(<<>>), JList(<<>>), JStr("llm_analysis_failed"),
                        Missing),
              JList(<<>>), JStr("basic_approach"))

\* Raises ValueError without a model; any failure of the call or of the
\* parsing gives the sentinel; the parsed value is returned as it is, also
\* when it is no object.
extract_topic_info_with_llm(model, resp) ==
    IF ~model
    THEN [raised |-> TRUE, is_object |-> FALSE, value |-> NoValue, called |-> FALSE]
    ELSE IF ~HasText(resp) \/ resp.kind = "unparsable"
    THEN [raised |-> FALSE, is_object |-> TRUE, value |-> SentinelInfoStep2,
          called |-> TRUE]
    ELSE IF resp.kind # "object"
    THEN [raised |-> FALSE, is_object |-> FALSE, value |-> NoValue, called |-> TRUE]
    ELSE [raised |-> FALSE, is_object |-> TRUE, value |-> resp.info, called |-> TRUE]

\* Without a model the method calls self._get_mock_verification, which the
\* class does not define (AttributeError).
verify_books_with_llm_step2(model, books, topic_info, resp) ==
    IF books = <<>> THEN VerifyEmpty(FALSE, FALSE)
    ELSE IF ~model
    THEN [raised |-> TRUE, value |-> <<>>, called |-> FALSE, logged |-> FALSE]
    ELSE LET books_to_verify == Prefix(books, VerifyCapStep2) IN
         IF JoinRaises(Get(topic_info.specific_topics, JList(<<>>)))
         THEN [raised |-> TRUE, value |-> <<>>, called |-> FALSE, logged |-> FALSE]
         ELSE IF ~HasText(resp) \/ resp.kind # "object"
         THEN VerifyEmpty(TRUE, FALSE)
         ELSE LET book_scores == Get(resp.book_scores, JList(<<>>)) IN
              IF book_scores.ty # "list" THEN VerifyEmpty(TRUE, FALSE)
              ELSE LET merged == MergeScores(books_to_verify, book_scores.items, <<>>) IN
                   IF merged.raised \/ SortRaises(merged.value)
                   THEN VerifyEmpty(TRUE, FALSE)
                   ELSE [raised |-> FALSE, value |-> SortedByTotal(merged.value),
                         called |-> TRUE, logged |-> FALSE]

\* One element of result['recommended_books'] (lines 298-319).
RecommendationStep2(rank, book) ==
    [rank |-> rank, title |-> book.title, isbn |-> book.isbn,
     total_score |-> book.llm_total_score,
     score_breakdown |-> [relevance |-> book.llm_relevance,
                          appropriateness |-> book.llm_appropriateness,
                          reliability |-> book.llm_reliability,
                          recency |-> book.llm_recency,
                          accessibility |-> book.llm_accessibility],
     search_keyword |-> book.search_keyword]

TopicResultStep2(topic, topic_info, found, verified, recommended) ==
    [topic |-> topic, topic_analysis |-> topic_info,
     total_books_found |-> found, verified_books_count |-> verified,
     recommended_books |-> recommended]

ErrorResultStep2(topic) == TopicResultStep2(topic, ErrorInfo, 0, 0, <<>>)

\* trace lists the external calls made: the model call of the analyzer, the
\* search requests, the model call of the verifier.
process_single_topic_step2(model, topic, env) ==
    LET analysis == extract_topic_info_with_llm(model, env.analysis)
        analyzed == IF analysis.called THEN <<Event("analyze", topic)>> ELSE <<>>
    IN  IF analysis.raised \/ ~analysis.is_object
        THEN [result |-> ErrorResultStep2(topic), caught |-> TRUE, trace |-> analyzed]
        ELSE
        LET topic_info == analysis.value
            search == search_books_naver(Get(topic_info.keywords, JList(<<>>)),
                                         env.answers)
            books == search.value
            verification == verify_books_with_llm_step2(model, books, topic_info,
                                                        env.verification)
            verified_books == verification.value
            top_books == Prefix(verified_books, TopN)
        IN  IF search.raised
            THEN [result |-> ErrorResultStep2(topic), caught |-> TRUE,
                  trace |-> analyzed]
            ELSE IF verification.raised
            THEN [result |-> ErrorResultStep2(topic), caught |-> TRUE,
                  trace |-> analyzed \o search.trace]
            ELSE [result |-> TopicResultStep2(topic, topic_info, Len(books),
                                 Len(verified_books),
                                 [i \in 1..Len(top_books) |->
                                     RecommendationStep2(i, top_books[i])]),
                  caught |-> FALSE,
                  trace |-> analyzed \o search.trace
                            \o (IF verification.called
                                THEN <<Event("verify", topic)>> ELSE <<>>)]

\* main() of step 2 runs over three fixed sample topics (lines 354-358).
NumSampleTopics == 3

SampleTopics == [i \in 1..NumSampleTopics |-> Topic(i)]

\* The behaviours of the collaborators the step-2 run is explored with.
Step2Analyses ==
    {RespRaise, RespNonObject}
    \cup {AnalysisResponse(Step2Info(InfoWith(k, JStr("physics"), JList(<<>>)),
                                     t, JStr("approach"))) :
             k \in {KeywordList(1), Missing}, t \in {JList(<<>>), JList(<<JNum(1)>>)}}

\* The keywords value search is called with, when it is called.
Step2Keywords(model, a) ==
    LET analysis == extract_topic_info_with_llm(model, a) IN
    IF analysis.raised \/ ~analysis.is_object THEN JList(<<>>)
    ELSE Get(analysis.value.keywords, JList(<<>>))

\* The verifier's model call is made during the topic.
Step2VerifierCalled(model, a, answers) ==
    LET r == process_single_topic_step2(model, Topic(1),
                 [analysis |-> a, answers |-> answers, verification |-> RespRaise])
    IN  \E i \in 1..Len(r.trace) : r.trace[i].ev = "verify"

\* State when main() of step 2 starts.
InitStep2 ==
    /\ pc = "new2"
    /\ environ \in Environs
    /\ timeline = <<>>
    /\ call = NoValue
    /\ ret = NoValue
    /\ usage_log = <<>>
    /\ processed_count = 0
    /\ total_count = 0
    /\ df = <<>>
    /\ topics = <<>>
    /\ results = <<>>
    /\ keywords_list = <<>>
    /\ academic_fields = <<>>

\* LLMBookVerificationSystem() (lines 23-39): a missing GOOGLE_API_KEY only
\* prints a warning and leaves self.model = None; missing search credentials
\* raise ValueError.  Then main() sets up the sample topics.
ConstructStep2 ==
    /\ pc = "new2"
    /\ IF ~environ["NAVER_CLIENT_ID"] \/ ~environ["NAVER_CLIENT_SECRET"]
       THEN pc' = "config_error" /\ ret' = Exception(39) /\ topics' = topics
       ELSE pc' = "loop2" /\ ret' = ret /\ topics' = SampleTopics
    /\ UNCHANGED <<call, usage_log, processed_count, total_count, df, results,
                   keywords_list, academic_fields, environ, timeline>>

\* One iteration of the loop of main() (lines 365-371).
ProcessSampleTopic ==
    /\ pc = "loop2"
    /\ Len(results) < Len(topics)
    /\ LET topic == topics[Len(results) + 1] IN
       \E a \in (IF ModelLoaded THEN Step2Analyses ELSE {NoValue}) :
          \E ans \in BatchAnswers(NumRequests(Step2Keywords(ModelLoaded, a))) :
             \E v \in (IF Step2VerifierCalled(ModelLoaded, a, ans)
                       THEN BatchVerifyResponses ELSE {NoValue}) :
                LET env == [analysis |-> a, answers |-> ans, verification |-> v]
                    r == process_single_topic_step2(ModelLoaded, topic, env)
                IN  /\ call' = [topic |-> topic, env |-> env]
                    /\ ret' = r
                    /\ results' = Append(results, r.result)
    /\ UNCHANGED <<pc, usage_log, processed_count, total_count, df, topics,
                   keywords_list, academic_fields, environ, timeline>>

\* Lines 373-384: the results and their statistics are put together.
FinishStep2 ==
    /\ pc = "loop2"
    /\ Len(results) = Len(topics)
    /\ pc' = "returned2"
    /\ ret' = [test_topics |-> Len(topics), results |-> results,
               statistics |->
                  [average_books_found |->
                      [num |-> SumFound(results), den |-> Len(results)]]]
    /\ UNCHANGED <<call, usage_log, batchVars, environ, timeline>>

NextStep2 == ConstructStep2 \/ ProcessSampleTopic \/ FinishStep2

SpecStep2 == InitStep2 /\ [][NextStep2]_vars

(***************************************************************************)
(* Properties of the construction of the systems.                          *)
(***************************************************************************)
SomeCredentialAbsent == \E c \in Credentials : ~environ[c]

\* The system was constructed and the run went on to its batch.
BatchEntered == pc \notin {"new", "new2", "config_error"}

\* C13: when a required credential is absent, constructing the system fails
\* and the batch is aborted before any topic is processed: no topic gets a
\* result and no analyzer, search or verifier call is made.
C13_AbsentCredentialAbortsBatch ==
    SomeCredentialAbsent =>
        /\ ~BatchEntered
        /\ results = <<>>
        /\ usage_log = <<>>
        /\ call = NoValue

(***************************************************************************)
(* SpecLong: one call of verify_books_with_llm, of the integrated system   *)
(* or of the step-2 system, on a candidate list around and above the       *)
(* length the verifier submits.                                            *)
(***************************************************************************)
MaxOverflow == 2    \* candidates beyond the 15 the integrated system submits

\* Lengths of the candidate list: below, at and above both caps.
LongLengths == (VerifyCapStep2 - 1)..(VerifyCap + MaxOverflow)

\* Ordinals a response declares: the first, the last ones of each prefix,
\* the first ones beyond each prefix, the last of the longest list, and 0.
LongBookNumbers ==
    {JNum(n) : n \in {0, 1, VerifyCapStep2, VerifyCapStep2 + 1, VerifyCap,
                      VerifyCap + 1, VerifyCap + MaxOverflow}}

LongScoreEntries ==
    {ScoreInfo(b, InRangeScores, t) : b \in LongBookNumbers, t \in {Missing, JNum(100)}}

LongResponses ==
    {ScoresResponse(JList(e)) : e \in SeqsUpTo(LongScoreEntries, MaxEntries)}

GoodInfoStep2 == Step2Info(GoodInfo, JList(<<JStr("s1")>>), JStr("basic_approach"))

InitLong ==
    /\ pc = "long"
    /\ \E n \in LongLengths :
         \E resp \in LongResponses :
            call = [books |-> Candidates(n), response |-> resp]
    /\ ret = NoValue
    /\ usage_log = <<>>
    /\ processed_count = 0
    /\ total_count = 0
    /\ df = <<>>
    /\ topics = <<>>
    /\ results = <<>>
    /\ keywords_list = <<>>
    /\ academic_fields = <<>>
    /\ environ = AllSet
    /\ timeline = <<>>

\* BookRecommendationSystem.verify_books_with_llm on the long list.
VerifyLong ==
    /\ pc = "long"
    /\ LET r == verify_books_with_llm(call.books, GoodInfo, call.response, TRUE)
       IN  /\ ret' = [result |-> r,
                      book_list |-> BookList(Prefix(call.books, VerifyCap))]
           /\ usage_log' = IF r.logged
                           THEN log_api_call(usage_log, "book_verification")
                           ELSE usage_log
    /\ pc' = "long_verified"
    /\ UNCHANGED <<call, batchVars, environ, timeline>>

\* LLMBookVerificationSystem.verify_books_with_llm on the long list.
VerifyLongStep2 ==
    /\ pc = "long"
    /\ ret' = [result |-> verify_books_with_llm_step2(ModelLoaded, call.books,
                                                      GoodInfoStep2, call.response),
               book_list |-> BookList(Prefix(call.books, VerifyCapStep2))]
    /\ pc' = "long_verified2"
    /\ UNCHANGED <<call, usage_log, batchVars, environ, timeline>>

NextLong == VerifyLong \/ VerifyLongStep2

SpecLong == InitLong /\ [][NextLong]_vars

(***************************************************************************)
(* Properties of the bounded prefix (checked under SpecLong).              *)
(***************************************************************************)
\* The ordinals declared by the entries of the response.
DeclaredOrdinals ==
    {call.response.book_scores.items[e].book_number.n :
        e \in 1..Len(call.response.book_scores.items)}

\* C22: verify_books_with_llm submits to the model only a bounded prefix of
\* its input, the first 15 candidates in the integrated system and the first
\* 10 in the step-2 system; the ordinals of the response are resolved against
\* that prefix, so a candidate beyond the prefix never appears in the output.
C22_OnlyPrefixSubmitted ==
    pc \in {"long_verified", "long_verified2"} =>
        LET cap == IF pc = "long_verified" THEN 15 ELSE 10
            n == IF Len(call.books) < cap THEN Len(call.books) ELSE cap
        IN  /\ ~ret.result.raised
            /\ ret.book_list = [i \in 1..n |-> <<i, call.books[i].title>>]
            /\ \A k \in 1..Len(ret.result.value) :
                  \E i \in 1..n :
                     /\ i \in DeclaredOrdinals
                     /\ ret.result.value[k].title = call.books[i].title
                     /\ ret.result.value[k].isbn = call.books[i].isbn
            /\ \A i \in (cap + 1)..Len(call.books) :
                  \A k \in 1..Len(ret.result.value) :
                     ret.result.value[k].title # call.books[i].title

\* Witness of C22: the list is longer than 15, the response scores the 15th
\* candidate and the 16th, and only the 15th is in the output.
C22_Witness ==
    /\ pc = "long_verified"
    /\ Len(call.books) > 15
    /\ {15, 16} \subseteq DeclaredOrdinals
    /\ Len(ret.result.value) = 1
    /\ ret.result.value[1].title = call.books[15].title

(***************************************************************************)
(* SpecHeap: one call of verify_books_with_llm with the candidate dicts    *)
(* as objects.  heap[r] holds the fields of the object with reference r; a *)
(* list is a sequence of references.                                       *)
(***************************************************************************)
\* The candidate dict with all the fields search_books_naver gives it.
FullCandidate(i) ==
    [title |-> i, author |-> 100 + i, publisher |-> 200 + i, pubdate |-> 300 + i,
     isbn |-> <<i>>, description |-> 400 + i, search_keyword |-> JStr("k1")]

\* Mutant of MergeOnHeap: the scores are written into the candidate itself.
RECURSIVE MergeOnHeap_InPlace(_, _, _, _)
MergeOnHeap_InPlace(heap, books_to_verify, book_scores, verified_books) ==
    IF book_scores = <<>>
    THEN [raised |-> FALSE, heap |-> heap, value |-> verified_books]
    ELSE LET score_info == Head(book_scores) IN
         IF EntryRaises(score_info)
         THEN [raised |-> TRUE, heap |-> heap, value |-> <<>>]
         ELSE LET book_num == BookNum(score_info) IN
              IF OrdinalInRange(book_num, books_to_verify)
              THEN LET book == books_to_verify[book_num + 1] IN
                   MergeOnHeap_InPlace(
                       [heap EXCEPT ![book] = ScoredBook(@, score_info)],
                       books_to_verify, Tail(book_scores),
                       Append(verified_books, book))
              ELSE MergeOnHeap_InPlace(heap, books_to_verify, Tail(book_scores),
                                       verified_books)

\* The merge loop (lines 374-388) on objects: .copy() allocates a new dict
\* with the fields of the candidate, update writes into that new dict, and
\* the reference of the new dict is appended to verified_books.
RECURSIVE MergeOnHeap(_, _, _, _)
MergeOnHeap(heap, books_to_verify, book_scores, verified_books) ==
    IF book_scores = <<>>
    THEN [raised |-> FALSE, heap |-> heap, value |-> verified_books]
    ELSE LET score_info == Head(book_scores) IN
         IF EntryRaises(score_info)
         THEN [raised |-> TRUE, heap |-> heap, value |-> <<>>]
         ELSE LET book_num == BookNum(score_info) IN
              IF OrdinalInRange(book_num, books_to_verify)
              THEN LET book == Len(heap) + 1 IN
                   MergeOnHeap(
                       Append(heap, ScoredBook(heap[books_to_verify[book_num + 1]],
                                               score_info)),
                       books_to_verify, Tail(book_scores),
                       Append(verified_books, book))
              ELSE MergeOnHeap(heap, books_to_verify, Tail(book_scores),
                               verified_books)

\* The references with the sort key of their objects.
Keyed(heap, refs) ==
    [i \in 1..Len(refs) |->
        [ref |-> refs[i], llm_total_score |-> heap[refs[i]].llm_total_score]]

\* sorted(...) returns a new list of the same references.
SortedRefs(heap, refs) ==
    LET s == SortedByTotal(Keyed(heap, refs)) IN [i \in 1..Len(s) |-> s[i].ref]

\* verify_books_with_llm on objects: books is the input list, the result
\* holds the heap and the input list as the call leaves them.
verify_books_on_heap(heap, books, topic_info, resp, log_ok) ==
    LET empty == [raised |-> FALSE, heap |-> heap, books |-> books, value |-> <<>>] IN
    IF books = <<>> THEN empty
    ELSE LET books_to_verify == Prefix(books, VerifyCap) IN
         IF JoinRaises(Get(topic_info.book_types, JList(<<JStr("general")>>)))
         THEN [empty EXCEPT !.raised = TRUE]
         ELSE IF ~HasText(resp) \/ ~log_ok \/ resp.kind # "object" THEN empty
         ELSE LET book_scores == Get(resp.book_scores, JList(<<>>)) IN
              IF book_scores.ty # "list" THEN empty
              ELSE LET merged == MergeOnHeap(heap, books_to_verify,
                                             book_scores.items, <<>>)
                   IN  IF merged.raised \/ SortRaises(Keyed(merged.heap, merged.value))
                       THEN [empty EXCEPT !.heap = merged.heap]
                       ELSE [raised |-> FALSE, heap |-> merged.heap, books |-> books,
                             value |-> SortedRefs(merged.heap, merged.value)]

InitHeap ==
    /\ pc = "heap"
    /\ \E n \in 1..MaxBooks :
         \/ \E resp \in VerifyResponses :
               \E log_ok \in LogOutcomes(resp) :
                  call = [heap |-> [i \in 1..n |-> FullCandidate(i)],
                          books |-> [i \in 1..n |-> i],
                          topic_info |-> GoodInfo,
                          response |-> resp, log_ok |-> log_ok]
         \/ call = [heap |-> [i \in 1..n |-> FullCandidate(i)],
                    books |-> [i \in 1..n |-> i],
                    topic_info |-> BadTypesInfo,
                    response |-> NoValue, log_ok |-> TRUE]
    /\ ret = NoValue
    /\ usage_log = <<>>
    /\ processed_count = 0
    /\ total_count = 0
    /\ df = <<>>
    /\ topics = <<>>
    /\ results = <<>>
    /\ keywords_list = <<>>
    /\ academic_fields = <<>>
    /\ environ = AllSet
    /\ timeline = <<>>

VerifyOnHeap ==
    /\ pc = "heap"
    /\ ret' = verify_books_on_heap(call.heap, call.books, call.topic_info,
                                   call.response, call.log_ok)
    /\ pc' = "heap_verified"
    /\ UNCHANGED <<call, usage_log, batchVars, environ, timeline>>

NextHeap == VerifyOnHeap

SpecHeap == InitHeap /\ [][NextHeap]_vars

(***************************************************************************)
(* Properties of verify_books_with_llm on objects (checked under SpecHeap).*)
(***************************************************************************)
CandidateFields ==
    {"title", "author", "publisher", "pubdate", "isbn", "description",
     "search_keyword"}

\* The scored object r carries the fields of the candidate at the ordinal of
\* the entry e, and the scores of e.
ScoredFrom(r, e) ==
    /\ e.ty = "dict"
    /\ Get(e.book_number, JNum(1)).ty = "num"
    /\ LET o == Get(e.book_number, JNum(1)).n IN
          /\ o \in 1..Len(call.books)
          /\ \A f \in CandidateFields :
                ret.heap[r][f] = call.heap[call.books[o]][f]
    /\ ret.heap[r].llm_total_score = Get(e.total_score, JNum(0))
    /\ ret.heap[r].llm_relevance = Get(e.relevance_score, JNum(0))
    /\ ret.heap[r].llm_appropriateness = Get(e.appropriateness_score, JNum(0))
    /\ ret.heap[r].llm_reliability = Get(e.reliability_score, JNum(0))
    /\ ret.heap[r].llm_recency = Get(e.recency_score, JNum(0))
    /\ ret.heap[r].llm_accessibility = Get(e.accessibility_score, JNum(0))

\* C23: verify_books_with_llm leaves its input list and every input
\* candidate record unchanged; each scored candidate is a new record that
\* carries the same title, author, publisher, publication date, identifier,
\* description and search keyword as the candidate at its ordinal, plus the
\* score fields.
C23_InputUnchangedOutputNew ==
    pc = "heap_verified" =>
        /\ ret.books = call.books
        /\ \A r \in 1..Len(call.heap) : ret.heap[r] = call.heap[r]
        /\ \A k \in 1..Len(ret.value) :
              /\ ret.value[k] \notin 1..Len(call.heap)
              /\ \A j \in 1..Len(ret.value) : j # k => ret.value[j] # ret.value[k]
              /\ \E i \in 1..Len(call.response.book_scores.items) :
                    ScoredFrom(ret.value[k], call.response.book_scores.items[i])

\* Witness of C23: two candidates were scored, the second one first in the
\* output, and both inputs are as they were.
C23_Witness ==
    /\ pc = "heap_verified"
    /\ Len(call.books) = 2
    /\ Len(ret.value) = 2
    /\ ret.heap[ret.value[1]].title = call.heap[2].title
    /\ ret.heap[ret.value[2]].title = call.heap[1].title
    /\ ret.heap[ret.value[1]].llm_total_score = JNum(100)
    /\ ret.heap[1] = call.heap[1] /\ ret.heap[2] = call.heap[2]

=============================================================================
